---- MODULE Spec2Model ----
(***************************************************************************)
(* A model of zero-drag's makeListener (src/lib/index.ts): the base        *)
(* pointer-down/move/up listener and its two option decorators,            *)
(* applyDragThreshold and applyDeferredTargeting, run against a small DOM  *)
(* and a host that delivers mouse events and fires timeouts.               *)
(***************************************************************************)
EXTENDS Integers, Sequences, FiniteSets, TLC

\* ------------------------------------------------------------------ bounds
\* The positions <<pageX, pageY>> of pointer events: two points exactly MaxX
\* apart and a third just beyond that distance from the first.
MaxX == 2
Points == {<<0, 0>>, <<MaxX, 0>>, <<MaxX, 1>>}

\* The delay deferTargeting asks for, in units of time (see Tick).
DeferTicks == 2

\* The values of dragThreshold and deferTargeting the listener is built with
\* (0: the option is not given, and the decorator is not applied).  The
\* threshold is the distance between the first two points.
DragThresholds == {0, MaxX}

\* Values of dragThreshold that are not positive: none given (0), and the
\* distance between the first two points, negated.
NonPositiveThresholds == {0, 0 - MaxX}

\* The sessions attached at once that a host delivering a pointer-down while
\* another session is attached is followed up to (see PointerDownAgain).
MaxSessions == 2
DeferTimes == {0, DeferTicks}

\* ------------------------------------------------------------------ the DOM
\* JavaScript's undefined / null (both falsy; the code never tells them apart).
Undefined == "undefined"

\* body > col > card, body > tile.  "card" is draggable (.item), "col" is a
\* drop target (.target), "tile" is both (a sortable entry), body is neither.
Elements == {"body", "col", "card", "tile"}
ItemFilter == {"card", "tile"}
TargetFilter == {"col", "tile"}

parentElement(element) ==
    CASE element = "card" -> "col"
      [] element = "col" -> "body"
      [] element = "tile" -> "body"
      [] OTHER -> Undefined

\* selectParent: the nearest ancestor-or-self matching the filter.
RECURSIVE selectParent(_, _)
selectParent(element, filter) ==
    IF element = Undefined THEN Undefined
    ELSE IF element \in filter THEN element
    ELSE selectParent(parentElement(element), filter)

\* makeParentSelector(filter): the selectors the options are built with.
makeParentSelector(filter, node) == selectParent(node, filter)

\* item.getBoundingClientRect() (left/top are all the code reads).
getBoundingClientRect(el) ==
    CASE el = "card" -> [left |-> 10, top |-> 20]
      [] el = "tile" -> [left |-> 30, top |-> 40]
      [] OTHER -> [left |-> 0, top |-> 0]

\* The default getItemValue / getTargetValue.
sameValue(el) == el

\* ------------------------------------------------------------------ state
VARIABLES
    options,        \* the DragOptions makeListener was called with
    active,         \* applyDragThreshold: let active
    timer,          \* applyDeferredTargeting: let timer (0: undefined/null)
    current_target, \* applyDeferredTargeting: the confirmed target
    next_target,    \* applyDeferredTargeting: the pending target
    last_message,   \* applyDeferredTargeting: the last message seen
    listeners,      \* the document's mousemove / mouseup listeners
    timeouts,       \* the host's pending timeouts: [handle, left]
    step,           \* history: what happened last (an event type, a timeout, a tick)
    ev,             \* history: the last pointer event the host delivered
    delivered,      \* history: the user-hook calls made by the last step
    last_sid,       \* history: the session last_message belongs to
    sess,           \* history: per attached session, what it has seen
    ended,          \* history: the sessions the last event detached
    watch,          \* history: whether recent is kept
    recent          \* history: the session's latest target selections

vars == <<options, active, timer, current_target, next_target, last_message,
          listeners, timeouts, step, ev, delivered, last_sid, sess, ended, watch, recent>>

OptionSets ==
    [dragThreshold : DragThresholds, deferTargeting : DeferTimes,
     selectItem : {TRUE}, selectTarget : {TRUE},
     onStart : {TRUE}, onDrag : {TRUE}, onDrop : {TRUE}]

NoEvent == [type |-> "none", target |-> Undefined, pageX |-> 0, pageY |-> 0]

\* last_message before any hook ran (never read: a timeout is only started
\* by a target selection, and a hook records a message right after it).
NoMessage ==
    [item |-> Undefined, itemValue |-> Undefined,
     itemOffset |-> [left |-> 0, top |-> 0],
     target |-> Undefined, targetValue |-> Undefined,
     event |-> NoEvent, dx |-> 0, dy |-> 0]

\* The mutable state a handler runs on, threaded through the operators below.
World ==
    [active |-> active, timer |-> timer, current_target |-> current_target,
     next_target |-> next_target, last_message |-> last_message,
     listeners |-> listeners, timeouts |-> timeouts,
     delivered |-> <<>>, last_sid |-> last_sid]

\* ------------------------------------------------------------------ helpers
RECURSIVE CountIds(_, _)
CountIds(seq, id) ==
    IF seq = <<>> THEN 0
    ELSE (IF Head(seq).id = id THEN 1 ELSE 0) + CountIds(Tail(seq), id)

RECURSIVE RemoveId(_, _)
RemoveId(seq, id) ==
    IF seq = <<>> THEN <<>>
    ELSE IF Head(seq).id = id THEN RemoveId(Tail(seq), id)
    ELSE <<Head(seq)>> \o RemoveId(Tail(seq), id)

\* ------------------------------------------------------------------ user hooks
\* A call of one of the user's hooks: recorded with the session that caused
\* it, whether a timeout did, and how many of that session's document
\* listeners were attached at the moment of the call.
userHook(w, hook, message, sid, byTimer) ==
    [w EXCEPT !.delivered = Append(@,
        [hook |-> hook, message |-> message, sid |-> sid, timer |-> byTimer,
         attached |-> CountIds(w.listeners.mousemove, sid)
                      + CountIds(w.listeners.mouseup, sid)])]

userSelectItem(el) == makeParentSelector(ItemFilter, el)
userSelectTarget(el) == makeParentSelector(TargetFilter, el)
getItemValue(el) == sameValue(el)
getTargetValue(el) == sameValue(el)

\* ------------------------------------------------------------------ applyDragThreshold
thresholdApplied == options.dragThreshold # 0

\* Mutant: the gate is not reset when a session starts.
applyDragThreshold_onStart_keep(w, message, sid, byTimer) == w

applyDragThreshold_onStart(w, message, sid, byTimer) ==
    [w EXCEPT !.active = FALSE]

\* Mutant: the gate opens at the threshold (>=) instead of beyond it (>).
applyDragThreshold_onDrag_ge(w, message, sid, byTimer) ==
    IF w.active
    THEN IF options.onDrag THEN userHook(w, "onDrag", message, sid, byTimer)
         ELSE w
    ELSE LET dist_px == options.dragThreshold
             a == message.dx * message.dx + message.dy * message.dy
                    >= dist_px * dist_px
             w1 == [w EXCEPT !.active = a]
         IN IF a /\ options.onStart
            THEN userHook(w1, "onStart", message, sid, byTimer)
            ELSE w1

\* Mutant: an open gate still drops the moves within the threshold.
applyDragThreshold_onDrag_regate(w, message, sid, byTimer) ==
    LET dist_px == options.dragThreshold
        a == message.dx * message.dx + message.dy * message.dy
               > dist_px * dist_px
    IN IF w.active
       THEN IF options.onDrag /\ a
            THEN userHook(w, "onDrag", message, sid, byTimer)
            ELSE w
       ELSE LET w1 == [w EXCEPT !.active = a]
            IN IF a /\ options.onStart
               THEN userHook(w1, "onStart", message, sid, byTimer)
               ELSE w1

\* Mutant: a threshold that is not positive leaves the gate open.
applyDragThreshold_onDrag_signed(w, message, sid, byTimer) ==
    IF w.active
    THEN IF options.onDrag THEN userHook(w, "onDrag", message, sid, byTimer)
         ELSE w
    ELSE LET dist_px == options.dragThreshold
             a == \/ dist_px <= 0
                  \/ message.dx * message.dx + message.dy * message.dy
                       > dist_px * dist_px
             w1 == [w EXCEPT !.active = a]
         IN IF a /\ options.onStart
            THEN userHook(w1, "onStart", message, sid, byTimer)
            ELSE w1

\* Mutant: the move that opens the gate is forwarded to onDrag as well.
applyDragThreshold_onDrag_both(w, message, sid, byTimer) ==
    IF w.active
    THEN IF options.onDrag THEN userHook(w, "onDrag", message, sid, byTimer)
         ELSE w
    ELSE LET dist_px == options.dragThreshold
             a == message.dx * message.dx + message.dy * message.dy
                    > dist_px * dist_px
             w1 == [w EXCEPT !.active = a]
             w2 == IF a /\ options.onStart
                   THEN userHook(w1, "onStart", message, sid, byTimer)
                   ELSE w1
         IN IF a /\ options.onDrag
            THEN userHook(w2, "onDrag", message, sid, byTimer)
            ELSE w2

applyDragThreshold_onDrag(w, message, sid, byTimer) ==
    IF w.active
    THEN IF options.onDrag THEN userHook(w, "onDrag", message, sid, byTimer)
         ELSE w
    ELSE LET dist_px == options.dragThreshold
             a == message.dx * message.dx + message.dy * message.dy
                    > dist_px * dist_px
             w1 == [w EXCEPT !.active = a]
         IN IF a /\ options.onStart
            THEN userHook(w1, "onStart", message, sid, byTimer)
            ELSE w1

applyDragThreshold_onDrop(w, message, sid, byTimer) ==
    IF w.active /\ options.onDrop
    THEN userHook(w, "onDrop", message, sid, byTimer)
    ELSE w

\* The options handed on by `if (dragThreshold) options = applyDragThreshold(..)`.
thresholdHas(hook) == thresholdApplied \/ options[hook]

thresholdCall(w, hook, message, sid, byTimer) ==
    IF thresholdApplied
    THEN CASE hook = "onStart" -> applyDragThreshold_onStart(w, message, sid, byTimer)
           [] hook = "onDrag" -> applyDragThreshold_onDrag(w, message, sid, byTimer)
           [] OTHER -> applyDragThreshold_onDrop(w, message, sid, byTimer)
    ELSE userHook(w, hook, message, sid, byTimer)

\* ------------------------------------------------------------------ applyDeferredTargeting
deferApplied == options.deferTargeting # 0

\* window.setTimeout's handle: a positive number no pending timeout has and
\* that differs from the (possibly stale) handle the variable still holds.
NewHandle(w) ==
    CHOOSE h \in 1..(Cardinality(w.timeouts) + 2) :
        /\ h # w.timer
        /\ \A t \in w.timeouts : t.handle # h
        /\ \A g \in 1..(h - 1) : g = w.timer \/ \E t \in w.timeouts : t.handle = g

cancel(w) ==
    IF w.timer # 0
    THEN [w EXCEPT !.timeouts = {t \in @ : t.handle # w.timer}, !.timer = 0]
    ELSE w

\* Mutant: the timeout is started without its delay.
setTarget_nodelay(w, new_target) ==
    IF new_target # w.next_target
    THEN LET w1 == cancel(w)
             h == NewHandle(w1)
         IN [w1 EXCEPT !.next_target = new_target,
                       !.timer = h,
                       !.timeouts = @ \cup {[handle |-> h, left |-> 0]}]
    ELSE w

\* Mutant: every call restarts the timeout, whatever the candidate.
setTarget_restart(w, new_target) ==
    LET w1 == cancel(w)
        h == NewHandle(w1)
    IN [w1 EXCEPT !.next_target = new_target,
                  !.timer = h,
                  !.timeouts = @ \cup {[handle |-> h,
                                        left |-> options.deferTargeting]}]

\* Mutant: a new timeout is started without cancelling the one outstanding.
setTarget_nocancel(w, new_target) ==
    IF new_target # w.next_target
    THEN LET h == NewHandle(w)
         IN [w EXCEPT !.next_target = new_target,
                      !.timer = h,
                      !.timeouts = @ \cup {[handle |-> h,
                                            left |-> options.deferTargeting]}]
    ELSE w

setTarget(w, new_target) ==
    IF new_target # w.next_target
    THEN LET w1 == cancel(w)
             h == NewHandle(w1)
         IN [w1 EXCEPT !.next_target = new_target,
                       !.timer = h,
                       !.timeouts = @ \cup {[handle |-> h,
                                             left |-> options.deferTargeting]}]
    ELSE w

\* Mutant: the timeout reports the pending target without confirming it.
timeoutCallback_noconfirm(w) ==
    IF thresholdHas("onDrag")
    THEN thresholdCall(w, "onDrag",
             [w.last_message EXCEPT !.target = w.next_target],
             w.last_sid, TRUE)
    ELSE w

\* The function setTarget hands to window.setTimeout.
timeoutCallback(w) ==
    LET w1 == [w EXCEPT !.current_target = w.next_target]
    IN IF thresholdHas("onDrag")
       THEN thresholdCall(w1, "onDrag",
                [w1.last_message EXCEPT !.target = w1.current_target],
                w1.last_sid, TRUE)
       ELSE w1

\* Mutant: the call returns the candidate it has just recorded.
applyDeferredTargeting_selectTarget_pending(w, el) ==
    LET new_target == IF options.selectTarget THEN userSelectTarget(el) ELSE el
        w1 == setTarget(w, new_target)
    IN [w |-> w1, ret |-> w1.next_target]

applyDeferredTargeting_selectTarget(w, el) ==
    LET new_target == IF options.selectTarget THEN userSelectTarget(el) ELSE el
        w1 == setTarget(w, new_target)
    IN [w |-> w1, ret |-> w1.current_target]

applyDeferredTargeting_onStart(w, message, sid, byTimer) ==
    LET w1 == [w EXCEPT !.current_target = Undefined,
                        !.next_target = Undefined,
                        !.last_message = message,
                        !.last_sid = sid]
    IN IF thresholdHas("onStart")
       THEN thresholdCall(w1, "onStart", message, sid, byTimer)
       ELSE w1

applyDeferredTargeting_onDrag(w, message, sid, byTimer) ==
    LET w1 == [w EXCEPT !.last_message = message, !.last_sid = sid]
    IN IF thresholdHas("onDrag")
       THEN thresholdCall(w1, "onDrag",
                [message EXCEPT !.target = w1.current_target], sid, byTimer)
       ELSE w1

\* Mutant: the drop reports the pending target.
applyDeferredTargeting_onDrop_pending(w, message, sid, byTimer) ==
    LET w1 == cancel(w)
    IN IF thresholdHas("onDrop")
       THEN thresholdCall(w1, "onDrop",
                [message EXCEPT !.target = w1.next_target], sid, byTimer)
       ELSE w1

\* Mutant: the drop leaves the timeout running.
applyDeferredTargeting_onDrop_nocancel(w, message, sid, byTimer) ==
    IF thresholdHas("onDrop")
    THEN thresholdCall(w, "onDrop",
             [message EXCEPT !.target = w.current_target], sid, byTimer)
    ELSE w

\* Mutant: the drop confirms the pending target.
applyDeferredTargeting_onDrop_confirm(w, message, sid, byTimer) ==
    LET w1 == [cancel(w) EXCEPT !.current_target = w.next_target]
    IN IF thresholdHas("onDrop")
       THEN thresholdCall(w1, "onDrop",
                [message EXCEPT !.target = w1.current_target], sid, byTimer)
       ELSE w1

applyDeferredTargeting_onDrop(w, message, sid, byTimer) ==
    LET w1 == cancel(w)
    IN IF thresholdHas("onDrop")
       THEN thresholdCall(w1, "onDrop",
                [message EXCEPT !.target = w1.current_target], sid, byTimer)
       ELSE w1

\* ------------------------------------------------------------------ makeListener
\* The composed options: `let { onStart, onDrag, onDrop, selectItem,
\* selectTarget, ... } = options` after the decorators were applied.
composedHas(hook) == deferApplied \/ thresholdHas(hook)

composedCall(w, hook, message, sid) ==
    IF deferApplied
    THEN CASE hook = "onStart" -> applyDeferredTargeting_onStart(w, message, sid, FALSE)
           [] hook = "onDrag" -> applyDeferredTargeting_onDrag(w, message, sid, FALSE)
           [] OTHER -> applyDeferredTargeting_onDrop(w, message, sid, FALSE)
    ELSE thresholdCall(w, hook, message, sid, FALSE)

composedSelectTarget(w, el) ==
    IF deferApplied THEN applyDeferredTargeting_selectTarget(w, el)
    ELSE IF options.selectTarget THEN [w |-> w, ret |-> userSelectTarget(el)]
    ELSE [w |-> w, ret |-> el]

\* Mutant: the message carries the pointer's position, not its displacement.
trigger_absolute(w, hook, c, event) ==
    IF composedHas(hook)
    THEN LET r == composedSelectTarget(w, event.target)
             itemValue == getItemValue(c.item)
             targetValue0 == IF r.ret # Undefined THEN getTargetValue(r.ret)
                             ELSE Undefined
             same == itemValue = targetValue0
             target == IF same THEN Undefined ELSE r.ret
             targetValue == IF same THEN Undefined ELSE targetValue0
         IN composedCall(r.w, hook,
                [item |-> c.item, itemValue |-> itemValue,
                 itemOffset |-> c.itemOffset,
                 target |-> target, targetValue |-> targetValue,
                 event |-> event,
                 dx |-> event.pageX,
                 dy |-> event.pageY],
                c.id)
    ELSE w

\* trigger(hook, event) of the session whose closure is c.
trigger(w, hook, c, event) ==
    IF composedHas(hook)
    THEN LET r == composedSelectTarget(w, event.target)
             itemValue == getItemValue(c.item)
             targetValue0 == IF r.ret # Undefined THEN getTargetValue(r.ret)
                             ELSE Undefined
             same == itemValue = targetValue0
             target == IF same THEN Undefined ELSE r.ret
             targetValue == IF same THEN Undefined ELSE targetValue0
         IN composedCall(r.w, hook,
                [item |-> c.item, itemValue |-> itemValue,
                 itemOffset |-> c.itemOffset,
                 target |-> target, targetValue |-> targetValue,
                 event |-> event,
                 dx |-> event.pageX - c.offsetX,
                 dy |-> event.pageY - c.offsetY],
                c.id)
    ELSE w

\* Mutant: the move listener triggers the start hook.
onMouseMove_start(w, c, event) == trigger(w, "onStart", c, event)

onMouseMove(w, c, event) == trigger(w, "onDrag", c, event)

removeEventListeners(w, c) ==
    [w EXCEPT !.listeners =
        [mousemove |-> RemoveId(w.listeners.mousemove, c.id),
         mouseup |-> RemoveId(w.listeners.mouseup, c.id)]]

\* Mutant: the listeners are removed after the drop hook has run.
onMouseUp_late(w, c, event) ==
    removeEventListeners(trigger(w, "onDrop", c, event), c)

onMouseUp(w, c, event) ==
    trigger(removeEventListeners(w, c), "onDrop", c, event)

addEventListeners(w, c) ==
    [w EXCEPT !.listeners =
        [mousemove |-> Append(w.listeners.mousemove, c),
         mouseup |-> Append(w.listeners.mouseup, c)]]

\* Mutant: an event target selectItem rejects is dragged itself.
onMouseDown_fallback(w, id, event) ==
    LET sel == IF options.selectItem THEN userSelectItem(event.target)
               ELSE event.target
        item == IF sel = Undefined THEN event.target ELSE sel
        c == [id |-> id, item |-> item,
              offsetX |-> event.pageX, offsetY |-> event.pageY,
              itemOffset |-> getBoundingClientRect(item)]
    IN addEventListeners(trigger(w, "onStart", c, event), c)

\* The listener makeListener returns, called with a mousedown event whose
\* session (if one starts) gets the closure identity id.
onMouseDown(w, id, event) ==
    LET item == IF options.selectItem THEN userSelectItem(event.target)
                ELSE event.target
        c == [id |-> id, item |-> item,
              offsetX |-> event.pageX, offsetY |-> event.pageY,
              itemOffset |-> getBoundingClientRect(item)]
    IN IF item = Undefined THEN w
       ELSE addEventListeners(trigger(w, "onStart", c, event), c)

\* The document dispatching an event to the listeners attached when the
\* dispatch began, in order, skipping one removed meanwhile.
RECURSIVE dispatchMove(_, _, _)
dispatchMove(w, cs, event) ==
    IF cs = <<>> THEN w
    ELSE dispatchMove(
            IF CountIds(w.listeners.mousemove, Head(cs).id) > 0
            THEN onMouseMove(w, Head(cs), event) ELSE w,
            Tail(cs), event)

RECURSIVE dispatchUp(_, _, _)
dispatchUp(w, cs, event) ==
    IF cs = <<>> THEN w
    ELSE dispatchUp(
            IF CountIds(w.listeners.mouseup, Head(cs).id) > 0
            THEN onMouseUp(w, Head(cs), event) ELSE w,
            Tail(cs), event)

\* itemPositionFrom(message): where the dragged item (or its ghost) goes.
itemPositionFrom(message) ==
    [left |-> message.itemOffset.left + message.dx,
     top |-> message.itemOffset.top + message.dy]

\* ------------------------------------------------------------------ history
Cap(n) == IF n > 2 THEN 2 ELSE n

RECURSIVE CountHook(_, _, _)
CountHook(calls, hook, sid) ==
    IF calls = <<>> THEN 0
    ELSE (IF Head(calls).hook = hook /\ Head(calls).sid = sid THEN 1 ELSE 0)
         + CountHook(Tail(calls), hook, sid)

AttachedIds(ls) ==
    {ls.mousemove[i].id : i \in DOMAIN ls.mousemove}
        \cup {ls.mouseup[i].id : i \in DOMAIN ls.mouseup}

\* Whether the event lies further than the threshold from where session c
\* went down (computed from the event, not from the gate's flag).
Beyond(c, event) ==
    (event.pageX - c.offsetX) * (event.pageX - c.offsetX)
      + (event.pageY - c.offsetY) * (event.pageY - c.offsetY)
        > options.dragThreshold * options.dragThreshold

\* What a session has seen: the number of its moves beyond the threshold and
\* of the user's onStart calls (both counted up to 2), and the target the
\* last timeout of the session confirmed.
NewTrack(c, calls) ==
    [c |-> c, beyond |-> 0, starts |-> Cap(CountHook(calls, "onStart", c.id)),
     confirmed |-> Undefined]

ClosureOf(ls, id) ==
    ls.mouseup[CHOOSE i \in DOMAIN ls.mouseup : ls.mouseup[i].id = id]

Tracked(w, event, moved, fired) ==
    [id \in AttachedIds(listeners) |->
        [sess[id] EXCEPT
            !.beyond = IF moved /\ Beyond(sess[id].c, event) THEN Cap(@ + 1) ELSE @,
            !.starts = Cap(@ + CountHook(w.delivered, "onStart", id)),
            !.confirmed = IF fired /\ id = w.last_sid THEN w.current_target ELSE @]]

RECURSIVE EndedOf(_, _, _)
EndedOf(cs, w, tracks) ==
    IF cs = <<>> THEN <<>>
    ELSE (IF Head(cs).id \in AttachedIds(w.listeners) THEN <<>>
          ELSE <<tracks[Head(cs).id]>>) \o EndedOf(Tail(cs), w, tracks)

\* The pointer events of the current session (after its mousedown) that
\* selected a target less than deferTargeting ago, oldest first, at most
\* three: the candidate the user's selector gave, the time since, the
\* confirmed target before the event, whether a timeout has run since, and
\* whether a timeout started before the event was still pending after it.
Last2(seq) == IF Len(seq) > 2 THEN SubSeq(seq, Len(seq) - 1, Len(seq)) ELSE seq

Selected(w, event) ==
    IF watch /\ deferApplied /\ listeners.mouseup # <<>>
    THEN LET cand == IF options.selectTarget THEN userSelectTarget(event.target)
                     ELSE event.target
         IN Last2(recent) \o
              <<[cand |-> cand, age |-> 0, cur |-> current_target, fired |-> FALSE,
                 old |-> cand = next_target /\ timeouts # {} /\ w.timeouts # {}]>>
    ELSE recent

RECURSIVE Aged(_)
Aged(seq) ==
    IF seq = <<>> THEN <<>>
    ELSE (IF Head(seq).age + 1 >= options.deferTargeting THEN <<>>
          ELSE <<[Head(seq) EXCEPT !.age = @ + 1]>>) \o Aged(Tail(seq))

\* ------------------------------------------------------------------ actions
Commit(w) ==
    /\ active' = w.active
    /\ timer' = w.timer
    /\ current_target' = w.current_target
    /\ next_target' = w.next_target
    /\ last_message' = w.last_message
    /\ listeners' = w.listeners
    /\ timeouts' = w.timeouts
    /\ delivered' = w.delivered
    /\ last_sid' = w.last_sid

NewSid ==
    CHOOSE i \in 1..(Cardinality(AttachedIds(listeners)) + 1) :
        /\ i \notin AttachedIds(listeners)
        /\ \A j \in 1..(i - 1) : j \in AttachedIds(listeners)

\* A mousedown event reaching the listener.
MouseDown(el, x, y) ==
    LET event == [type |-> "mousedown", target |-> el, pageX |-> x, pageY |-> y]
        w == onMouseDown(World, NewSid, event)
        started == NewSid \in AttachedIds(w.listeners)
    IN /\ step' = "mousedown"
       /\ ev' = event
       /\ Commit(w)
       /\ ended' = <<>>
       /\ sess' = [id \in AttachedIds(w.listeners) |->
                      IF id = NewSid
                      THEN NewTrack(ClosureOf(w.listeners, id), w.delivered)
                      ELSE Tracked(w, event, FALSE, FALSE)[id]]
       /\ recent' = IF started THEN <<>> ELSE recent
       /\ UNCHANGED <<options, watch>>

\* The document dispatching a mousemove event.
MouseMove(el, x, y) ==
    LET event == [type |-> "mousemove", target |-> el, pageX |-> x, pageY |-> y]
        w == dispatchMove(World, listeners.mousemove, event)
    IN /\ step' = "mousemove"
       /\ ev' = event
       /\ Commit(w)
       /\ ended' = <<>>
       /\ sess' = Tracked(w, event, TRUE, FALSE)
       /\ recent' = Selected(w, event)
       /\ UNCHANGED <<options, watch>>

\* The document dispatching a mouseup event.
MouseUp(el, x, y) ==
    LET event == [type |-> "mouseup", target |-> el, pageX |-> x, pageY |-> y]
        w == dispatchUp(World, listeners.mouseup, event)
        tracks == Tracked(w, event, FALSE, FALSE)
    IN /\ step' = "mouseup"
       /\ ev' = event
       /\ Commit(w)
       /\ ended' = EndedOf(listeners.mouseup, w, tracks)
       /\ sess' = [id \in AttachedIds(w.listeners) |-> tracks[id]]
       /\ recent' = Selected(w, event)
       /\ UNCHANGED <<options, watch>>

\* The host running a timeout that has come due.
Timeout ==
    \E t \in timeouts :
        /\ t.left = 0
        /\ LET w == timeoutCallback([World EXCEPT !.timeouts = @ \ {t}])
           IN /\ Commit(w)
              /\ sess' = Tracked(w, ev, FALSE, TRUE)
              /\ recent' = [i \in DOMAIN recent |->
                               [recent[i] EXCEPT !.fired = @ \/ w.delivered # <<>>]]
        /\ step' = "timeout"
        /\ ended' = <<>>
        /\ UNCHANGED <<options, watch, ev>>

\* One unit of time passing with no timeout due.
Tick ==
    /\ timeouts # {} \/ recent # <<>>
    /\ \A t \in timeouts : t.left > 0
    /\ timeouts' = {[t EXCEPT !.left = @ - 1] : t \in timeouts}
    /\ recent' = Aged(recent)
    /\ step' = "tick"
    /\ delivered' = <<>>
    /\ ended' = <<>>
    /\ UNCHANGED <<options, active, timer, current_target, next_target,
                   last_message, listeners, ev, last_sid, sess, watch>>

\* Where the pointer goes: anywhere, but a run that keeps the history of
\* target selections holds the pointer's position fixed (the targets, not the
\* distances, are what that history is about).
PointerAt == IF watch THEN {<<0, 0>>} ELSE Points

\* A host with one pointer: a button goes down only while none is held, and
\* up only while one is.
PointerDown ==
    /\ listeners.mouseup = <<>>
    /\ \E el \in Elements, p \in PointerAt : MouseDown(el, p[1], p[2])

PointerMove ==
    \E el \in Elements, p \in PointerAt : MouseMove(el, p[1], p[2])

PointerUp ==
    /\ listeners.mouseup # <<>>
    /\ \E el \in Elements, p \in PointerAt : MouseUp(el, p[1], p[2])

\* A pointer-down while a session is attached (a second button pressed
\* before the first is released): nothing in onMouseDown looks at that.
PointerDownAgain ==
    /\ listeners.mouseup # <<>>
    /\ Len(listeners.mouseup) < MaxSessions
    /\ \E el \in Elements, p \in PointerAt : MouseDown(el, p[1], p[2])

\* The state makeListener leaves: the decorators' variables as declared, no
\* listener on the document, no timeout.
Constructed ==
    /\ active = FALSE
    /\ timer = 0
    /\ current_target = Undefined
    /\ next_target = Undefined
    /\ last_message = NoMessage
    /\ listeners = [mousemove |-> <<>>, mouseup |-> <<>>]
    /\ timeouts = {}
    /\ step = "none"
    /\ ev = NoEvent
    /\ delivered = <<>>
    /\ last_sid = 0
    /\ sess = <<>>
    /\ ended = <<>>
    /\ recent = <<>>

Start == options \in OptionSets /\ Constructed

Init == Start /\ watch = FALSE

\* The same listener with deferTargeting, observed with the history of its
\* target selections.
InitWatch == Start /\ watch = TRUE /\ deferApplied

Next == PointerDown \/ PointerMove \/ PointerUp \/ Timeout \/ Tick

Spec == Init /\ [][Next]_vars

SpecWatch == InitWatch /\ [][Next]_vars

\* The listener built with a dragThreshold that is not positive.
InitNonPositive ==
    /\ options \in {[o EXCEPT !.dragThreshold = t] :
                        o \in OptionSets, t \in NonPositiveThresholds}
    /\ Constructed
    /\ watch = FALSE

SpecNonPositive == InitNonPositive /\ [][Next]_vars

\* The listener under a host that may also deliver overlapping pointer-downs,
\* built without deferTargeting (no timeout is ever started then, so the host
\* has none to run and no time to let pass).
InitMulti == Init /\ ~deferApplied

NextMulti == PointerDown \/ PointerDownAgain \/ PointerMove \/ PointerUp

SpecMulti == InitMulti /\ [][NextMulti]_vars

\* The listener with deferTargeting under a host that lets time pass while a
\* timeout is pending and runs a timeout that has come due (setTimeout's
\* contract); the pointer events stay as free as before.
InitFair == Init /\ deferApplied

SpecFair == InitFair /\ [][Next]_vars /\ WF_vars(Tick) /\ WF_vars(Timeout)

\* The listener with deferTargeting under the host of overlapping
\* pointer-downs, which also runs the timeouts and lets time pass (observed
\* with the history of its target selections, the pointer held in place).
InitMultiDefer == InitWatch

NextMultiDefer ==
    PointerDown \/ PointerDownAgain \/ PointerMove \/ PointerUp \/ Timeout \/ Tick

SpecMultiDefer == InitMultiDefer /\ [][NextMultiDefer]_vars

\* ------------------------------------------------------------------ properties
NoSession == listeners.mousemove = <<>> /\ listeners.mouseup = <<>>

AllHooks == options.onStart /\ options.onDrag /\ options.onDrop

Plain == ~thresholdApplied /\ ~deferApplied

\* The candidate the user's selector gives for the last pointer event.
Candidate ==
    IF options.selectTarget THEN userSelectTarget(ev.target) ELSE ev.target

\* The record of the session a delivered call belongs to, attached or just ended.
TrackOf(sid) ==
    IF sid \in DOMAIN sess THEN sess[sid]
    ELSE ended[CHOOSE j \in DOMAIN ended : ended[j].c.id = sid]

Known(sid) ==
    sid \in DOMAIN sess \/ \E j \in DOMAIN ended : ended[j].c.id = sid

\* C1: with neither dragThreshold nor deferTargeting and all three hooks set,
\* a pointer-down whose item resolves calls onStart once and nothing else,
\* each move calls onDrag once per attached session (of a session that was
\* started exactly once) and nothing else, and the pointer-up calls onDrop
\* once for the session it ends and nothing else; nothing else calls a hook.
C1_HookOrder ==
    (Plain /\ AllHooks) =>
        /\ step = "mousedown" =>
             IF userSelectItem(ev.target) = Undefined THEN delivered = <<>>
             ELSE /\ Len(delivered) = 1
                  /\ delivered[1].hook = "onStart"
                  /\ delivered[1].sid = listeners.mouseup[Len(listeners.mouseup)].id
                  /\ delivered[1].message.event = ev
        /\ step = "mousemove" =>
             /\ Len(delivered) = Len(listeners.mousemove)
             /\ \A i \in DOMAIN delivered :
                   /\ delivered[i].hook = "onDrag"
                   /\ delivered[i].sid = listeners.mousemove[i].id
                   /\ delivered[i].message.event = ev
        /\ step = "mouseup" =>
             /\ NoSession
             /\ Len(delivered) = Len(ended)
             /\ \A i \in DOMAIN delivered :
                   /\ delivered[i].hook = "onDrop"
                   /\ delivered[i].sid = ended[i].c.id
                   /\ delivered[i].message.event = ev
                   /\ ended[i].starts = 1
        /\ step \notin {"mousedown", "mousemove", "mouseup"} => delivered = <<>>
        /\ \A id \in DOMAIN sess : sess[id].starts = 1

\* C1's case: a session that was started, moved and has just been dropped.
C1_Witness ==
    /\ Plain /\ AllHooks
    /\ step = "mouseup"
    /\ Len(delivered) = 1 /\ delivered[1].hook = "onDrop"
    /\ ended[1].beyond = 2

\* C2: with dragThreshold T > 0 the user's onStart is called only by a move
\* event, only for a session whose first move beyond T this is, and with
\* that move's message; every session has had exactly one onStart if it
\* has moved beyond T (a move exactly T away does not count) and none so far
\* otherwise.
C2_StartAtFirstCrossing ==
    options.dragThreshold > 0 =>
        /\ \A i \in DOMAIN delivered :
              delivered[i].hook = "onStart" =>
                 /\ step = "mousemove"
                 /\ delivered[i].sid \in DOMAIN sess
                 /\ sess[delivered[i].sid].beyond = 1
                 /\ Beyond(sess[delivered[i].sid].c, ev)
                 /\ delivered[i].message.event = ev
                 /\ delivered[i].message.dx = ev.pageX - sess[delivered[i].sid].c.offsetX
                 /\ delivered[i].message.dy = ev.pageY - sess[delivered[i].sid].c.offsetY
        /\ \A id \in DOMAIN sess :
              /\ sess[id].starts = (IF sess[id].beyond > 0 THEN 1 ELSE 0)
              /\ (step = "mousemove" /\ sess[id].beyond = 1 /\ Beyond(sess[id].c, ev))
                    => CountHook(delivered, "onStart", id) = 1
        /\ \A j \in DOMAIN ended :
              ended[j].starts = (IF ended[j].beyond > 0 THEN 1 ELSE 0)

\* C2's case: the move that first takes a session beyond the threshold, after
\* the gate has been through a session before.
C2_Witness ==
    /\ options.dragThreshold > 0
    /\ step = "mousemove"
    /\ \E i \in DOMAIN delivered :
          /\ delivered[i].hook = "onStart"
          /\ delivered[i].message.dx * delivered[i].message.dx
               + delivered[i].message.dy * delivered[i].message.dy
                 = options.dragThreshold * options.dragThreshold + 1

\* C3: with dragThreshold T > 0 every call of a user hook belongs to a
\* session that has moved beyond T: a session that never does gets no onStart,
\* onDrag or onDrop, from pointer events or from a timeout.
C3_NoCrossingNoHooks ==
    options.dragThreshold > 0 =>
        \A i \in DOMAIN delivered :
            /\ Known(delivered[i].sid)
            /\ TrackOf(delivered[i].sid).beyond > 0

\* C3's case: with deferTargeting too, a timeout fires after a move of a
\* session that has not moved beyond T, and no hook is called.
C3_Witness ==
    /\ options.dragThreshold > 0 /\ deferApplied
    /\ step = "timeout"
    /\ delivered = <<>>
    /\ last_message.event.type = "mousemove"
    /\ \E id \in DOMAIN sess : sess[id].beyond = 0 /\ id = last_sid

\* C4: with deferTargeting (and no threshold gate in the way), when a timeout
\* fires in a session whose last pointer event was over a candidate target B
\* other than the dragged item, the user gets exactly one onDrag, from the
\* timeout, with target B and the dx/dy of that last pointer event.
C4_SettleDeliversTarget ==
    (/\ deferApplied /\ ~thresholdApplied /\ AllHooks
     /\ step = "timeout"
     /\ last_sid \in DOMAIN sess
     /\ Candidate # Undefined
     /\ Candidate # sess[last_sid].c.item) =>
        /\ Len(delivered) = 1
        /\ delivered[1].hook = "onDrag"
        /\ delivered[1].timer
        /\ delivered[1].message.target = Candidate
        /\ delivered[1].message.dx = ev.pageX - sess[last_sid].c.offsetX
        /\ delivered[1].message.dy = ev.pageY - sess[last_sid].c.offsetY

\* The same for timeouts that follow a move of the session.
C4_AfterMove ==
    ev.type # "mousedown" => C4_SettleDeliversTarget

\* The last three target selections of the session went A, B, A (two
\* different elements), all less than deferTargeting ago.
Flicker ==
    /\ Len(recent) = 3
    /\ recent[1].cand # Undefined
    /\ recent[2].cand # Undefined
    /\ recent[1].cand = recent[3].cand
    /\ recent[2].cand # recent[1].cand

\* C5 as claimed: whenever the candidates of three successive pointer events
\* went A, B, A within one window of deferTargeting, the confirmed target is
\* still what it was before the first of them and no timeout has called
\* onDrag since.
C5_NoFlickerAnyStart ==
    Flicker => /\ ~recent[1].fired
               /\ current_target = recent[1].cur

\* C5, amended: the same, for windows that begin with no timeout left over
\* from before (the first event changed the pending candidate, or no timeout
\* was pending).
C5_NoFlicker ==
    (Flicker /\ ~recent[1].old) =>
        /\ ~recent[1].fired
        /\ current_target = recent[1].cur

\* C5's case: A, B, A inside one window, begun with a fresh timeout, while a
\* target confirmed earlier is being reported and a timeout is pending.
C5_Witness ==
    /\ Flicker /\ ~recent[1].old
    /\ current_target # Undefined
    /\ timeouts # {}

\* C6: with deferTargeting, the message given to the user's onDrop has the
\* target the session's last timeout confirmed, absent if none has fired.
C6_DropReportsConfirmed ==
    deferApplied =>
        \A i \in DOMAIN delivered :
            delivered[i].hook = "onDrop" =>
                /\ Known(delivered[i].sid)
                /\ delivered[i].message.target = TrackOf(delivered[i].sid).confirmed

\* C6's case: a drop over a new candidate, reported with the confirmed target.
C6_Witness ==
    /\ deferApplied
    /\ step = "mouseup"
    /\ \E i \in DOMAIN delivered :
          /\ delivered[i].hook = "onDrop"
          /\ delivered[i].message.target # Undefined
          /\ Candidate # Undefined
          /\ Candidate # delivered[i].message.target

\* C7: the pointer-up ends the session, and while no session is attached no
\* timeout is pending and neither a move nor a timeout calls a user hook.
C7_QuietAfterDrop ==
    /\ step = "mouseup" => NoSession
    /\ NoSession =>
          /\ timeouts = {}
          /\ step \in {"mousemove", "timeout", "tick"} => delivered = <<>>

\* C7's case: with deferTargeting, a move after a session was dropped on a
\* candidate that was not the pending one.
C7_Witness ==
    /\ deferApplied
    /\ NoSession
    /\ step = "mousemove"
    /\ last_sid # 0
    /\ next_target # Undefined
    /\ next_target # last_message.target

\* C8: when the user's onDrop is called none of its session's listeners is
\* attached, and after the pointer-up the document has the listeners it had
\* before the pointer-down (none).
C8_DetachedBeforeDrop ==
    /\ \A i \in DOMAIN delivered :
          delivered[i].hook = "onDrop" => delivered[i].attached = 0
    /\ \A i \in DOMAIN delivered :
          delivered[i].hook = "onDrag" /\ ~delivered[i].timer
              => delivered[i].attached = 2
    /\ step = "mouseup" => listeners = [mousemove |-> <<>>, mouseup |-> <<>>]

\* C8's case: a pointer-up that called the user's onDrop.
C8_Witness ==
    /\ step = "mouseup"
    /\ \E i \in DOMAIN delivered : delivered[i].hook = "onDrop"

\* C9: a pointer-down for which selectItem gives no element calls no hook
\* and changes nothing: not the gate, not the debounce state, no timeout, no
\* listener.
C9_UnresolvedItemNoOp ==
    [][(/\ step' = "mousedown"
        /\ options.selectItem
        /\ userSelectItem(ev'.target) = Undefined) =>
            /\ delivered' = <<>>
            /\ UNCHANGED <<active, timer, current_target, next_target,
                           last_message, listeners, timeouts>>]_vars

\* C9's case: such a pointer-down, after sessions that left state behind.
C9_Witness ==
    /\ step = "mousedown"
    /\ options.selectItem
    /\ userSelectItem(ev.target) = Undefined
    /\ deferApplied /\ thresholdApplied
    /\ active /\ current_target # Undefined

\* C10: no message given to a user hook has the dragged item as its target:
\* a target with the item's value is reported as absent.
C10_TargetNeverItem ==
    \A i \in DOMAIN delivered :
        /\ delivered[i].message.target # delivered[i].message.item
        /\ delivered[i].message.target # Undefined =>
              getTargetValue(delivered[i].message.target)
                  # delivered[i].message.itemValue

\* The same without deferTargeting.
C10_WithoutDefer ==
    ~deferApplied => C10_TargetNeverItem

\* C11: with deferTargeting, a call of the composed selectTarget, in any
\* reachable state and for any element, returns the confirmed target as it is
\* when the call is made and leaves it as it is; and every onDrag a pointer
\* event delivers has the target the session's last timeout confirmed (absent
\* if none has), whatever candidate is pending.
C11_SelectReturnsConfirmed ==
    deferApplied =>
        /\ \A el \in Elements :
              LET r == composedSelectTarget(World, el)
              IN /\ r.ret = current_target
                 /\ r.w.current_target = current_target
        /\ \A i \in DOMAIN delivered :
              (delivered[i].hook = "onDrag" /\ ~delivered[i].timer) =>
                 /\ Known(delivered[i].sid)
                 /\ delivered[i].message.target = TrackOf(delivered[i].sid).confirmed

\* C11's case: a move over a new candidate, now pending, whose onDrag reports
\* the target confirmed before.
C11_Witness ==
    /\ deferApplied
    /\ step = "mousemove"
    /\ timeouts # {}
    /\ next_target = Candidate
    /\ next_target # Undefined
    /\ next_target # current_target
    /\ \E i \in DOMAIN delivered :
          /\ delivered[i].hook = "onDrag"
          /\ ~delivered[i].timer
          /\ delivered[i].message.target = current_target
          /\ delivered[i].message.target # Undefined

\* What a call of setTarget with the candidate cand does to the state: nothing
\* if cand is the pending candidate; otherwise the timeout the variable timer
\* names is cancelled, cand is pending and one new timeout (of a handle no
\* timeout left has) with the full delay
\* is started and named by timer.
C12_Call(cand) ==
    LET w == setTarget(World, cand)
    IN IF cand = next_target THEN w = World
       ELSE /\ w.next_target = cand
            /\ w.timer # 0
            /\ \A t \in timeouts : t.handle # timer => t.handle # w.timer
            /\ w.timeouts = {t \in timeouts : t.handle # timer}
                               \cup {[handle |-> w.timer,
                                      left |-> options.deferTargeting]}

\* The same seen from a move event of the one session attached.
C12_Move ==
    (deferApplied /\ step' = "mousemove" /\ Len(listeners.mousemove) = 1) =>
        LET cand == IF options.selectTarget THEN userSelectTarget(ev'.target)
                    ELSE ev'.target
        IN IF cand = next_target
           THEN /\ timeouts' = timeouts
                /\ timer' = timer
                /\ next_target' = next_target
           ELSE /\ next_target' = cand
                /\ timer' # 0
                /\ \A t \in timeouts : t.handle # timer => t.handle # timer'
                /\ timeouts' = {t \in timeouts : t.handle # timer}
                                  \cup {[handle |-> timer',
                                         left |-> options.deferTargeting]}

\* C12: with deferTargeting D, a target selection whose candidate is the
\* pending one neither cancels nor restarts the timeout (which keeps the time
\* it has left), and one whose candidate differs cancels the outstanding
\* timeout, records the candidate as pending and starts a new timeout of D:
\* for a call made in any reachable state, and for every move of a session.
C12_Debounce ==
    /\ [](deferApplied =>
            \A el \in Elements \cup {Undefined} : C12_Call(el))
    /\ [][C12_Move]_vars

\* C12's case: a move over the pending candidate while its timeout has run
\* part of its delay, and is left running.
C12_Witness ==
    /\ deferApplied
    /\ step = "mousemove"
    /\ listeners.mousemove # <<>>
    /\ Candidate = next_target
    /\ Candidate # Undefined
    /\ \E t \in timeouts :
          t.handle = timer /\ t.left > 0 /\ t.left < options.deferTargeting

\* The calls of a hook that pointer events (not timeouts) made for a session.
RECURSIVE CountPointer(_, _, _)
CountPointer(calls, hook, sid) ==
    IF calls = <<>> THEN 0
    ELSE (IF Head(calls).hook = hook /\ Head(calls).sid = sid /\ ~Head(calls).timer
          THEN 1 ELSE 0) + CountPointer(Tail(calls), hook, sid)

\* C13: with dragThreshold T > 0, a move of a session that had moved beyond T
\* before calls the user's onDrag once with that move's event, however far
\* from the start it is; and the pointer-up calls the user's onDrop once for a
\* session that has moved beyond T and not at all for one that has not.
C13_ActiveStays ==
    (options.dragThreshold > 0 /\ AllHooks) =>
        /\ step = "mousemove" =>
              \A id \in DOMAIN sess :
                  (sess[id].beyond > 0 /\ CountHook(delivered, "onStart", id) = 0) =>
                      /\ CountPointer(delivered, "onDrag", id) = 1
                      /\ \A i \in DOMAIN delivered :
                            (delivered[i].sid = id /\ ~delivered[i].timer) =>
                                /\ delivered[i].hook = "onDrag"
                                /\ delivered[i].message.event = ev
        /\ step = "mouseup" =>
              /\ \A j \in DOMAIN ended :
                    CountHook(delivered, "onDrop", ended[j].c.id)
                        = (IF ended[j].beyond > 0 THEN 1 ELSE 0)
              /\ \A i \in DOMAIN delivered :
                    delivered[i].hook = "onDrop" =>
                        \E j \in DOMAIN ended : ended[j].c.id = delivered[i].sid
        /\ step # "mouseup" =>
              \A i \in DOMAIN delivered : delivered[i].hook # "onDrop"

\* C13's case: a session that has been beyond the threshold moves back to
\* where it started, and the move reaches onDrag.
C13_Witness ==
    /\ options.dragThreshold > 0 /\ AllHooks
    /\ step = "mousemove"
    /\ \E i \in DOMAIN delivered :
          /\ delivered[i].hook = "onDrag"
          /\ ~delivered[i].timer
          /\ delivered[i].message.dx = 0
          /\ delivered[i].message.dy = 0

\* The pending target after a move or a pointer-up of the one session
\* attached is the candidate of that event, and a timeout leaves it alone.
C14_Pending ==
    /\ (/\ deferApplied
        /\ step' \in {"mousemove", "mouseup"}
        /\ Len(listeners.mousemove) = 1) =>
            next_target' = (IF options.selectTarget
                            THEN userSelectTarget(ev'.target) ELSE ev'.target)
    /\ step' = "timeout" => next_target' = next_target

\* A target-selection call, made in this state for any element, leaves the
\* confirmed target alone and makes the element's candidate the pending one.
C14_Select ==
    deferApplied =>
        \A el \in Elements :
            LET r == applyDeferredTargeting_selectTarget(World, el)
            IN /\ r.w.current_target = current_target
               /\ r.w.next_target = (IF options.selectTarget
                                     THEN userSelectTarget(el) ELSE el)

\* C14 as claimed: the confirmed target changes only in a step that runs a
\* timeout; the pending target follows every target selection.
C14_OnlyTimerConfirms ==
    /\ []C14_Select
    /\ [][/\ current_target' # current_target => step' = "timeout"
          /\ C14_Pending]_vars

\* C14, amended: the confirmed target changes only in a step that runs a
\* timeout, or when the onStart of a pointer-down that starts a session resets
\* it to absent; no target selection, move or pointer-up changes it, and
\* the pending target follows every target selection.
C14_TimerOrStartConfirms ==
    /\ []C14_Select
    /\ [][/\ current_target' # current_target =>
                \/ step' = "timeout"
                \/ /\ step' = "mousedown"
                   /\ current_target' = Undefined
                   /\ listeners'.mouseup # listeners.mouseup
          /\ C14_Pending]_vars

\* C14's case: a pointer-down has just started a session while a target
\* confirmed in the session before was still held (the start message shows
\* it), and the confirmed target is now absent.
C14_Witness ==
    /\ deferApplied
    /\ step = "mousedown"
    /\ last_message.event = ev
    /\ last_message.target # Undefined
    /\ current_target = Undefined

\* The calls of a hook made by the last step.
RECURSIVE CountCalls(_, _)
CountCalls(calls, hook) ==
    IF calls = <<>> THEN 0
    ELSE (IF Head(calls).hook = hook /\ ~Head(calls).timer THEN 1 ELSE 0)
         + CountCalls(Tail(calls), hook)

\* C15: whatever pointer-downs, moves and pointer-ups the listener gets, at
\* most one of its move listeners and one of its up listeners are attached to
\* the document, a move event calls onDrag at most once and a pointer-up
\* calls onDrop at most once.
C15_OneSession ==
    /\ Len(listeners.mousemove) <= 1
    /\ Len(listeners.mouseup) <= 1
    /\ step = "mousemove" => CountCalls(delivered, "onDrag") <= 1
    /\ step = "mouseup" => CountCalls(delivered, "onDrop") <= 1

\* C16 as claimed: with a dragThreshold that is not positive the gate is
\* always open: onStart is called by a move only, every move of a session
\* calls one hook (onStart the first time, onDrag after), whatever its
\* displacement, and the pointer-up calls onDrop.
C16_AlwaysActive ==
    (options.dragThreshold <= 0 /\ AllHooks) =>
        /\ \A i \in DOMAIN delivered :
              delivered[i].hook = "onStart" => step = "mousemove"
        /\ step = "mousemove" =>
              \A id \in DOMAIN sess :
                  CountPointer(delivered, "onStart", id)
                    + CountPointer(delivered, "onDrag", id) = 1
        /\ step = "mouseup" =>
              \A j \in DOMAIN ended :
                  CountHook(delivered, "onDrop", ended[j].c.id) = 1

\* C16, amended.  With dragThreshold 0 there is no gate: onStart is called by
\* the pointer-down (and by nothing else), every move calls onDrag and the
\* pointer-up calls onDrop.  A negative dragThreshold T gates like -T:
\* onStart is called by the first move with dx*dx + dy*dy > T*T, a move
\* before that calls nothing, every move after it calls onDrag, and the
\* pointer-up calls onDrop if and only if there was such a move.
C16_NonPositive ==
    AllHooks =>
        /\ options.dragThreshold = 0 =>
              /\ \A i \in DOMAIN delivered :
                    delivered[i].hook = "onStart" => step = "mousedown"
              /\ (step = "mousedown" /\ userSelectItem(ev.target) # Undefined) =>
                    CountPointer(delivered, "onStart",
                                 listeners.mouseup[Len(listeners.mouseup)].id) = 1
              /\ step = "mousemove" =>
                    \A id \in DOMAIN sess :
                        CountPointer(delivered, "onDrag", id) = 1
              /\ step = "mouseup" =>
                    \A j \in DOMAIN ended :
                        CountHook(delivered, "onDrop", ended[j].c.id) = 1
        /\ options.dragThreshold < 0 =>
              /\ \A i \in DOMAIN delivered :
                    delivered[i].hook = "onStart" =>
                       /\ step = "mousemove"
                       /\ delivered[i].sid \in DOMAIN sess
                       /\ sess[delivered[i].sid].beyond = 1
                       /\ Beyond(sess[delivered[i].sid].c, ev)
              /\ \A id \in DOMAIN sess :
                    sess[id].starts = (IF sess[id].beyond > 0 THEN 1 ELSE 0)
              /\ step = "mousemove" =>
                    \A id \in DOMAIN sess :
                        /\ sess[id].beyond = 0 =>
                              \A i \in DOMAIN delivered : delivered[i].sid # id
                        /\ (sess[id].beyond > 0
                              /\ CountHook(delivered, "onStart", id) = 0) =>
                                 CountPointer(delivered, "onDrag", id) = 1
              /\ step = "mouseup" =>
                    \A j \in DOMAIN ended :
                        CountHook(delivered, "onDrop", ended[j].c.id)
                            = (IF ended[j].beyond > 0 THEN 1 ELSE 0)

\* C16's case: with a negative threshold, a move as far from the start as
\* the threshold's magnitude, and no hook is called.
C16_Witness ==
    /\ options.dragThreshold < 0 /\ AllHooks
    /\ step = "mousemove"
    /\ delivered = <<>>
    /\ \E id \in DOMAIN sess :
          /\ sess[id].beyond = 0
          /\ (ev.pageX - sess[id].c.offsetX) * (ev.pageX - sess[id].c.offsetX)
               + (ev.pageY - sess[id].c.offsetY) * (ev.pageY - sess[id].c.offsetY)
                 = options.dragThreshold * options.dragThreshold

\* The spec's scenario: the item's box at left 10 / top 20, the pointer down
\* at (15, 25), a move to (115, 75), no threshold and no deferred targeting.
C17_Scenario ==
    LET c == [id |-> 0, item |-> "card", offsetX |-> 15, offsetY |-> 25,
              itemOffset |-> getBoundingClientRect("card")]
        event == [type |-> "mousemove", target |-> "body",
                  pageX |-> 115, pageY |-> 75]
        w == onMouseMove(World, c, event)
    IN /\ c.itemOffset = [left |-> 10, top |-> 20]
       /\ Len(w.delivered) = 1
       /\ w.delivered[1].message.dx = 100
       /\ w.delivered[1].message.dy = 50
       /\ itemPositionFrom(w.delivered[1].message) = [left |-> 110, top |-> 70]

\* C17: every message given to a user hook has the item and the itemOffset
\* its session captured at pointer-down (the item's bounding box then), and
\* dx / dy equal to its event's position minus the position of the
\* pointer-down; a message given at pointer-down has dx = dy = 0;
\* itemPositionFrom gives itemOffset moved by that displacement; and the
\* spec's scenario gives dx = 100, dy = 50 and the position (110, 70).
C17_Displacement ==
    /\ \A i \in DOMAIN delivered :
          /\ Known(delivered[i].sid)
          /\ LET c == TrackOf(delivered[i].sid).c
                 m == delivered[i].message
             IN /\ m.item = c.item
                /\ m.itemOffset = c.itemOffset
                /\ m.itemOffset = getBoundingClientRect(c.item)
                /\ m.dx = m.event.pageX - c.offsetX
                /\ m.dy = m.event.pageY - c.offsetY
                /\ step = "mousedown" => (m.dx = 0 /\ m.dy = 0)
                /\ itemPositionFrom(m) =
                      [left |-> c.itemOffset.left + m.event.pageX - c.offsetX,
                       top |-> c.itemOffset.top + m.event.pageY - c.offsetY]
    /\ Plain => C17_Scenario

\* C17's case: a session that went down away from the origin on an item with
\* an offset, and a move that is displaced both ways.
C17_Witness ==
    /\ step = "mousemove"
    /\ \E i \in DOMAIN delivered :
          /\ delivered[i].message.dx # 0
          /\ delivered[i].message.dy # 0
          /\ delivered[i].message.event.pageX # delivered[i].message.dx
          /\ delivered[i].message.itemOffset.left # 0

\* C18: with deferTargeting and no dragThreshold, a pointer-down that starts
\* a session leaves the pending and the confirmed target absent, and the
\* message given to the user's onStart has no target.
C18_StartWithoutTarget ==
    (deferApplied /\ ~thresholdApplied) =>
        /\ (step = "mousedown" /\ userSelectItem(ev.target) # Undefined) =>
              /\ current_target = Undefined
              /\ next_target = Undefined
        /\ \A i \in DOMAIN delivered :
              delivered[i].hook = "onStart" =>
                  /\ delivered[i].message.target = Undefined
                  /\ delivered[i].message.targetValue = Undefined

\* C19: with deferTargeting, a timeout that calls the user's onDrag has
\* changed the confirmed target, and the message's target differs from the
\* confirmed target before it (the target that the session's messages were
\* reporting); a timeout that leaves the confirmed target as it was calls
\* nothing.
C19_TimerReflectsChange ==
    [][(deferApplied /\ step' = "timeout" /\ delivered' # <<>>) =>
          /\ current_target' # current_target
          /\ \A i \in DOMAIN delivered' :
                delivered'[i].message.target # current_target]_vars

\* What C20 says of the pointer events of a session, with dragThreshold
\* T > 0: the move that takes it beyond T for the first time calls onStart
\* and nothing else, every move after that calls onDrag once and nothing
\* else, a move before it calls nothing, and every onDrag and onDrop belongs
\* to a session whose onStart has been called.
C20_Moves ==
    /\ step = "mousemove" =>
          \A id \in DOMAIN sess :
              IF CountHook(delivered, "onStart", id) > 0
              THEN /\ CountHook(delivered, "onStart", id) = 1
                   /\ CountHook(delivered, "onDrag", id) = 0
                   /\ sess[id].beyond = 1
              ELSE CountHook(delivered, "onDrag", id)
                       = (IF sess[id].beyond > 0 THEN 1 ELSE 0)
    /\ \A i \in DOMAIN delivered :
          /\ Known(delivered[i].sid)
          /\ TrackOf(delivered[i].sid).starts = 1
          /\ delivered[i].hook = "onStart" => step = "mousemove"
          /\ delivered[i].hook = "onDrop" => step = "mouseup"

\* C20 as claimed: that, and the user's onDrag is called by moves only (the
\* first time by the move after the one that called onStart).
C20_StartThenDrag ==
    (options.dragThreshold > 0 /\ AllHooks) =>
        /\ C20_Moves
        /\ \A i \in DOMAIN delivered :
              delivered[i].hook = "onDrag" => step = "mousemove"

\* C20, amended: that, and the user's onDrag is called by moves and, with
\* deferTargeting as well, by a timeout that fires once onStart has been
\* called, which may come before the next move.
C20_StartThenPointerDrag ==
    (options.dragThreshold > 0 /\ AllHooks) =>
        /\ C20_Moves
        /\ \A i \in DOMAIN delivered :
              delivered[i].hook = "onDrag" =>
                  \/ step = "mousemove" /\ ~delivered[i].timer
                  \/ step = "timeout" /\ delivered[i].timer /\ deferApplied

\* C20's case: the move that called onStart was the session's last event,
\* over a candidate target, and the timeout confirming that target has
\* called onDrag before any further move.
C20_Witness ==
    /\ options.dragThreshold > 0 /\ AllHooks /\ deferApplied
    /\ step = "timeout"
    /\ Len(delivered) = 1
    /\ delivered[1].hook = "onDrag"
    /\ delivered[1].sid \in DOMAIN sess
    /\ sess[delivered[1].sid].beyond = 1
    /\ Beyond(sess[delivered[1].sid].c, ev)
    /\ ev.type = "mousemove"
    /\ delivered[1].message.target = Candidate
    /\ Candidate # Undefined

\* C21: in every message given to a user hook the targetValue goes with the
\* target: absent if the target is absent, getTargetValue(target) otherwise.
C21_TargetValueOfTarget ==
    \A i \in DOMAIN delivered :
        delivered[i].message.targetValue =
            (IF delivered[i].message.target = Undefined THEN Undefined
             ELSE getTargetValue(delivered[i].message.target))

\* The same without deferTargeting.
C21_WithoutDefer ==
    ~deferApplied => C21_TargetValueOfTarget

\* C22: with deferTargeting, whatever pointer-downs (overlapping ones
\* included), moves, pointer-ups and timeouts have happened, at most one
\* timeout is outstanding, and it is the one the variable timer names: the
\* one before it has fired or was cancelled before it was started.
C22_OneTimer ==
    deferApplied =>
        /\ Cardinality(timeouts) <= 1
        /\ \A t \in timeouts : t.handle = timer

\* C22's case: two sessions are attached, and a move has just changed the
\* candidate while the timeout of the selection before it was outstanding;
\* the new timeout is the only one.
C22_Witness ==
    /\ deferApplied
    /\ Len(listeners.mouseup) = 2
    /\ step = "mousemove"
    /\ Len(recent) >= 2
    /\ recent[Len(recent)].cand # recent[Len(recent) - 1].cand
    /\ ~recent[Len(recent) - 1].fired
    /\ timeouts = {[handle |-> timer, left |-> options.deferTargeting]}

\* While a session is attached, a pending target that differs from the
\* confirmed one has its timeout outstanding.
C23_PendingHasTimer ==
    (deferApplied /\ listeners.mouseup # <<>> /\ next_target # current_target) =>
        \E t \in timeouts : t.handle = timer

\* C23: with deferTargeting, while a session is attached (its onStart has
\* run) a pending target that differs from the confirmed one has a timeout
\* outstanding; and, timeouts being run when due, if from some point on the
\* session stays attached and the pending candidate stays c, then from some
\* point on the confirmed target is c.
C23_PendingGetsConfirmed ==
    /\ []C23_PendingHasTimer
    /\ \A c \in TargetFilter \cup {Undefined} :
          <>[](listeners.mouseup # <<>> /\ next_target = c)
              => <>[](current_target = c)

\* C23's case: in a session whose messages were reporting another target, a
\* timeout has just confirmed the pending candidate.
C23_Witness ==
    /\ deferApplied
    /\ listeners.mouseup # <<>>
    /\ step = "timeout"
    /\ current_target = next_target
    /\ current_target # Undefined
    /\ last_message.target # Undefined
    /\ last_message.target # current_target

====
